---- MODULE Spec2Model ----
(***************************************************************************)
(* OCA.py (src/oca.py): the OCR confidence analysis script.  One run of    *)
(* the script is a straight line of stages: download the METS manifest,    *)
(* read the fulltext URLs, download the ALTO files, extract the word       *)
(* confidences, tabulate them, look at the table of page 9, describe every *)
(* page, render the document strip and the page heatmaps, resize the       *)
(* images, plot the distribution and write the HTML report.  The           *)
(* directories of the record outlive a run; everything else is rebuilt by  *)
(* the next run.                                                           *)
(*                                                                         *)
(* Confidence values are fixed-point numbers in thousandths (0.5 is 500).  *)
(* A WC token is the sequence of its characters.                           *)
(***************************************************************************)
EXTENDS Integers, Sequences, FiniteSets, TLC

\* ------------------------------------------------------------------ bounds
MaxPages == 2
MaxLines == 2
MaxWords == 2

\* ------------------------------------------------------- program constants
\* np.nan: the missing value of a float cell
NaN == -1
\* plt.figure(figsize=(10, 1))
FigW == 10
FigH == 1
\* dots per inch of fig.savefig (matplotlib's figure.dpi)
SavefigDpi == 100
\* (width, height) = (210, 298)
PageW == 210
PageH == 298
\* (width, height) = (420, 595)
StatW == 420
StatH == 595
\* g.figure.set_figwidth(12), g.figure.set_figheight(3)
DisplotW == 12
DisplotH == 3
\* counter % 6
CardsPerRow == 6
\* pages_df_list[8], the look at page 9
PeekIndex == 8

record_id == "PPN86268370X"

\* ----------------------------------------------------------- small helpers
Range(s) == {s[i] : i \in DOMAIN s}

RECURSIVE SumSeq(_)
SumSeq(s) == IF s = <<>> THEN 0 ELSE Head(s) + SumSeq(Tail(s))

RECURSIVE FlattenSeq(_)
FlattenSeq(ss) == IF ss = <<>> THEN <<>> ELSE Head(ss) \o FlattenSeq(Tail(ss))

MaxOf(S) == IF S = {} THEN 0 ELSE CHOOSE m \in S : \A o \in S : o <= m

SeqsUpTo(S, n) == UNION {[1..k -> S] : k \in 0..n}

\* ---------------------------------------------------------------- WC tokens
\* the tokens an ALTO file carries in String/@WC in this model
Tok1Dot == <<"1", ".">>
Tok05   == <<"0", ".", "5">>
TokNone == <<"N", "o", "n", "e">>
TokBad  == <<"x">>

\* the Python object None, which pd.DataFrame puts into the cells a short
\* line does not reach; no token equals it (a token's elements are single
\* characters)
None == <<"None">>

DigitChars == {"0", "1", "2", "3", "4", "5", "6", "7", "8", "9"}

DigitVal(c) ==
    CASE c = "0" -> 0 [] c = "1" -> 1 [] c = "2" -> 2 [] c = "3" -> 3
      [] c = "4" -> 4 [] c = "5" -> 5 [] c = "6" -> 6 [] c = "7" -> 7
      [] c = "8" -> 8 [] c = "9" -> 9

RECURSIVE DecimalVal(_)
DecimalVal(ds) ==
    IF ds = <<>> THEN 0
    ELSE 10 * DecimalVal(SubSeq(ds, 1, Len(ds) - 1)) + DigitVal(ds[Len(ds)])

\* the first three fraction digits, in thousandths
FractionVal(ds) ==
    LET d(i) == IF i <= Len(ds) THEN DigitVal(ds[i]) ELSE 0
    IN  100 * d(1) + 10 * d(2) + d(3)

\* float(s) for a string of digits with at most one ".": digits, "digits.",
\* "digits.digits" and ".digits" are floats ("1." is 1.0); every other string
\* over the alphabet of this model raises ValueError
PyFloat(tok) ==
    LET dots   == {i \in DOMAIN tok : tok[i] = "."}
        digits == {i \in DOMAIN tok : tok[i] \in DigitChars}
        dot    == IF dots = {} THEN Len(tok) + 1 ELSE CHOOSE i \in dots : TRUE
        valid  == /\ Cardinality(dots) <= 1
                  /\ digits # {}
                  /\ dots \cup digits = DOMAIN tok
    IN  IF valid
        THEN [ok |-> TRUE,
              v  |-> 1000 * DecimalVal(SubSeq(tok, 1, dot - 1))
                       + FractionVal(SubSeq(tok, dot + 1, Len(tok)))]
        ELSE [ok |-> FALSE, v |-> NaN]

\* one cell of an object column cast to float: None becomes nan, a string
\* goes through float()
CastCell(c) == IF c = None THEN [ok |-> TRUE, v |-> NaN] ELSE PyFloat(c)

\* ------------------------------------------------------------- page tables
\* DataFrame with the lines cut to the shortest one (what zip() would do)
DataFrameTruncated(lines) ==
    LET n == Len(lines)
        m == IF n = 0 THEN 0
             ELSE CHOOSE l \in {Len(lines[i]) : i \in 1..n} :
                    \A i \in 1..n : l <= Len(lines[i])
    IN  [shape  |-> <<n, m>>,
         values |-> [i \in 1..n |-> [j \in 1..m |-> lines[i][j]]]]

\* pd.DataFrame(lines): one row per line, as many columns as the longest
\* line has words, None where a line is shorter
DataFrame(lines) ==
    LET n == Len(lines)
        m == MaxOf({Len(lines[i]) : i \in 1..n})
    IN  [shape  |-> <<n, m>>,
         values |-> [i \in 1..n |->
                       [j \in 1..m |-> IF j <= Len(lines[i]) THEN lines[i][j]
                                                              ELSE None]]]

MapCells(df, F(_)) ==
    [df EXCEPT !.values = [i \in DOMAIN df.values |->
                             [j \in DOMAIN df.values[i] |-> F(df.values[i][j])]]]

Cells(df) == {df.values[i][j] : i \in 1..df.shape[1], j \in 1..df.shape[2]}

\* item.astype(float): ValueError when a cell is no float
AsTypeFloat(df) ==
    IF \E c \in Cells(df) : ~CastCell(c).ok
    THEN [ok |-> FALSE, df |-> df]
    ELSE [ok |-> TRUE, df |-> MapCells(df, LAMBDA c : CastCell(c).v)]

\* item.fillna(value=np.nan)
FillNa(df) == MapCells(df, LAMBDA c : IF c = None THEN NaN ELSE c)

\* item.replace("1.", "1.0")
Replace(df, old, new) == MapCells(df, LAMBDA c : IF c = old THEN new ELSE c)

\* a clean-up that turns what is no float into nan instead of raising (what
\* pd.to_numeric(errors='coerce') would do)
CleanUpCoerce(item) ==
    [ok |-> TRUE,
     df |-> MapCells(item, LAMBDA c : IF CastCell(c).ok THEN CastCell(c).v ELSE NaN)]

\* the body of the clean-up loop for one page: the three assignments all read
\* `item`, the frame as it was built, so the last one decides the entry
CleanUp(item) ==
    LET filled   == FillNa(item)
        replaced == Replace(item, Tok1Dot, <<"1", ".", "0">>)
        floats   == AsTypeFloat(item)
    IN  floats

\* ------------------------------------------------------------- statistics
\* item.stack(): the cells of the frame row by row, the nan cells dropped
Stack(df) ==
    FlattenSeq([i \in 1..df.shape[1] |->
                  SelectSeq(df.values[i], LAMBDA c : c # NaN)])

ISqrtIn[v \in Nat, lo \in Nat, hi \in Nat] ==
    IF hi - lo <= 1 THEN lo
    ELSE LET mid == (lo + hi) \div 2
         IN  IF mid <= v \div mid THEN ISqrtIn[v, mid, hi] ELSE ISqrtIn[v, lo, mid]

\* the square root, rounded down
ISqrt(v) == ISqrtIn[v, 0, v + 1]

\* Series.quantile(q/4) of the sorted values, interpolation "linear"
Quantile(sorted, q) ==
    LET n   == Len(sorted)
        pos == (n - 1) * q
        lo  == pos \div 4
        hi  == IF lo + 1 < n THEN lo + 1 ELSE lo
    IN  IF n = 0 THEN NaN
        ELSE sorted[lo + 1] + ((sorted[hi + 1] - sorted[lo + 1]) * (pos % 4)) \div 4

\* Series.describe() of a float series: count is the number of values that
\* are not nan; of no values the mean, the extremes and the quantiles are nan,
\* and of fewer than two the standard deviation (ddof = 1) is
Describe(stack) ==
    LET vals   == SelectSeq(stack, LAMBDA c : c # NaN)
        n      == Len(vals)
        sorted == SortSeq(vals, LAMBDA a, b : a < b)
        sum    == SumSeq(vals)
        sumsq  == SumSeq([i \in 1..n |-> vals[i] * vals[i]])
    IN  [count |-> n,
         mean  |-> IF n = 0 THEN NaN ELSE sum \div n,
         std   |-> IF n < 2 THEN NaN
                   ELSE ISqrt((n * sumsq - sum * sum) \div (n * (n - 1))),
         min   |-> IF n = 0 THEN NaN ELSE sorted[1],
         q25   |-> Quantile(sorted, 1),
         q50   |-> Quantile(sorted, 2),
         q75   |-> Quantile(sorted, 3),
         max   |-> IF n = 0 THEN NaN ELSE sorted[n]]

\* one entry of pages_df_list_report: stack, dropna (its result is not kept),
\* describe
PageReport(item) ==
    LET stack   == Stack(item)
        dropped == SelectSeq(stack, LAMBDA c : c # NaN)
    IN  Describe(stack)

\* Series.dropna() of a column of the report frame or of a row of a page
DropNa(series) == SelectSeq(series, LAMBDA c : c # NaN)

\* Series.mean(): nan values skipped, nan of none
SeriesMean(series) ==
    LET vals == DropNa(series)
    IN  IF vals = <<>> THEN NaN ELSE SumSeq(vals) \div Len(vals)

\* ------------------------------------------------------------------ images
\* An image is its size in pixels and, from top to bottom, the bands it was
\* put together from; a band keeps the size it was drawn at and what was
\* drawn: the number of unit cells along x and the values colouring them.
MinOf2(a, b) == IF a <= b THEN a ELSE b

\* one warming stripe: a Rectangle for every y in range(0, last_item + 1),
\* the values without nan as the collection's array, the x axis from 0 to
\* last_item + 1
RenderStrip(series) ==
    LET data      == DropNa(series)
        last_item == Len(data)
    IN  [kind   |-> "strip",
         w      |-> FigW * SavefigDpi,
         h      |-> FigH * SavefigDpi,
         ncells |-> Cardinality(0..last_item),
         xlim   |-> last_item + 1,
         array  |-> data]

\* the value that colours cell k (1-based) of a strip: the collection cycles
\* through its array, and draws nothing when the array is empty
CellValue(band, k) ==
    IF band.array = <<>> THEN NaN
    ELSE band.array[((k - 1) % Len(band.array)) + 1]

\* fig.savefig(path): the figure as a PNG
SaveFig(band) == [width |-> band.w, height |-> band.h, bands |-> <<band>>]

\* Image.paste of im onto a canvas `width` wide: what lies right of the
\* canvas is cut off
Paste(im, width) ==
    [i \in DOMAIN im.bands |->
       [im.bands[i] EXCEPT !.w = MinOf2(im.bands[i].w, width)]]

\* the concatenation with the added image on top
get_concat_v_on_top(im1, im2) ==
    [width  |-> im1.width,
     height |-> im1.height + im2.height,
     bands  |-> Paste(im2, im1.width) \o Paste(im1, im1.width)]

get_concat_v(im1, im2) ==
    [width  |-> im1.width,
     height |-> im1.height + im2.height,
     bands  |-> Paste(im1, im1.width) \o Paste(im2, im1.width)]

\* a resize whose result is never saved
ResizeNotSaved(img, width, height) == img

\* img.resize((width, height), resample=Image.BOX): an image that has the
\* size already comes back as it is; the bands keep their order
Resize(img, width, height) ==
    IF img.width = width /\ img.height = height THEN img
    ELSE [width |-> width, height |-> height, bands |-> img.bands]

\* ocapy/blank.png, the blank page representative
blank_png ==
    [width  |-> PageW,
     height |-> PageH,
     bands  |-> <<[kind |-> "blank", w |-> PageW, h |-> PageH,
                   ncells |-> 0, xlim |-> 0, array |-> <<>>]>>]

\* what an earlier run over other data may have left behind: a page image
\* in images/ and an unfinished composite in temp/
StaleBand ==
    [kind |-> "stale", w |-> FigW * SavefigDpi, h |-> FigH * SavefigDpi,
     ncells |-> 1, xlim |-> 1, array |-> <<>>]

StaleImage == [width |-> PageW, height |-> PageH, bands |-> <<StaleBand>>]

StaleScratch == SaveFig(StaleBand)

\* ------------------------------------------------------------- file system
\* A directory is a function from the names of its files to their content.
EmptyDir == << >>

Exists(dir, name) == name \in DOMAIN dir

WriteFile(dir, name, content) == (name :> content) @@ dir

Remove(dir, name) == [n \in (DOMAIN dir) \ {name} |-> dir[n]]

PageName(page_index) == ToString(page_index) \o ".png"

StatName == record_id \o ".png"

DisplotName == record_id \o "_displot.png"

ConcatName == "concat.png"

MetsName == record_id \o ".xml"

ReportName == record_id \o "_report.html"

\* the k-th fulltext location of the manifest; os.path.basename(url) is its
\* name
AltoUrl(k) ==
    [base |-> "https://img.sub.uni-hamburg.de/kitodo/" \o record_id \o "/",
     name |-> "0000000" \o ToString(k) \o ".xml"]

Basename(url) == url.name

\* An XML file: whether the FULLTEXT file group is there and the locations in
\* it (a manifest), the text lines with the WC tokens of their strings (a
\* page).  A file that was opened for writing and never written is empty.
EmptyFile == [complete |-> FALSE, fulltext |-> FALSE, urls |-> <<>>, lines |-> <<>>]

MetsOf(doc) ==
    [complete |-> TRUE, fulltext |-> doc.fulltext,
     urls |-> [k \in 1..Len(doc.pages) |-> AltoUrl(k)], lines |-> <<>>]

AltoOf(doc, url) ==
    LET k == CHOOSE i \in 1..Len(doc.pages) : AltoUrl(i) = url
    IN  [complete |-> TRUE, fulltext |-> FALSE, urls |-> <<>>, lines |-> doc.pages[k]]

\* ---------------------------------------------------------------- download
\* open(filename, 'wb') creates the file before the request is made;
\* raise_for_status() raises on a response that is no success
download_file(dir, filename, payload, status) ==
    LET opened == WriteFile(dir, filename, EmptyFile)
    IN  IF status = "ok"
        THEN [dir |-> WriteFile(opened, filename, payload), requests |-> 1,
              raised |-> FALSE]
        ELSE [dir |-> opened, requests |-> 1, raised |-> TRUE]

\* a download that does not look for the file first
download_always(dir, filename, payload, status) ==
    LET got == download_file(dir, filename, payload, status)
    IN  [dir |-> got.dir, requests |-> got.requests, raised |-> got.raised,
         feedback |-> IF got.raised THEN "Retrieving: "
                                    ELSE "Retrieving:  -> Done!"]

download_if_not_exists(dir, filename, payload, status) ==
    IF ~Exists(dir, filename)
    THEN LET got == download_file(dir, filename, payload, status)
         IN  [dir |-> got.dir, requests |-> got.requests, raised |-> got.raised,
              feedback |-> IF got.raised THEN "Retrieving: "
                                         ELSE "Retrieving:  -> Done!"]
    ELSE [dir |-> dir, requests |-> 0, raised |-> FALSE,
          feedback |-> "Using local copy: "]

\* ------------------------------------------------------------------ report
\* str(x)[0:4] of a float below 10: "nan", or the first two decimals that
\* repr() prints
Str4(v) ==
    IF v = NaN THEN "nan"
    ELSE LET frac == v % 1000
             d1   == frac \div 100
             d2   == (frac \div 10) % 10
         IN  ToString(v \div 1000) \o "." \o ToString(d1)
               \o (IF d2 = 0 /\ frac % 10 = 0 THEN "" ELSE ToString(d2))

Markup(el, cls) ==
    [el |-> el, cls |-> cls, img |-> "", words |-> "", lines |-> "",
     mean |-> "", std |-> "", q25 |-> "", q50 |-> "", q75 |-> ""]

\* the card of page `counter`: balanced markup of its own, kept as one element
Card(counter, stats, df) ==
    [el    |-> "card",
     cls   |-> "col-lg-2 col-md-12 h-100",
     img   |-> "images/" \o PageName(counter),
     words |-> ToString(stats.count),
     lines |-> ToString(df.shape[1]),
     mean  |-> Str4(stats.mean),
     std   |-> Str4(stats.std),
     q25   |-> Str4(stats.q25),
     q50   |-> Str4(stats.q50),
     q75   |-> Str4(stats.q75)]

RECURSIVE DetailsLoop(_, _, _, _, _)
DetailsLoop(counter, n, report_df, df_list, report_details) ==
    IF counter >= n THEN report_details
    ELSE LET closed == IF counter % CardsPerRow = 0 /\ counter # 0
                       THEN Append(report_details, Markup("/div", ""))
                       ELSE report_details
             opened == IF counter % CardsPerRow = 0
                       THEN closed \o <<Markup("div", "row gx-2 m-1"),
                                        Markup("/div", ""),
                                        Markup("div", "row gx-2 m-1")>>
                       ELSE closed
         IN  DetailsLoop(counter + 1, n, report_df, df_list,
                         Append(opened, Card(counter, report_df[counter + 1],
                                             df_list[counter + 1])))

\* report_details: the container, the loop over range(len(fulltext_path)),
\* one closing tag
ReportDetails(n, report_df, df_list) ==
    Append(DetailsLoop(0, n, report_df, df_list, <<Markup("div", "container")>>),
           Markup("/div", ""))

\* BeautifulSoup(report).prettify() of a piece of the body: the parser drops
\* a closing tag that closes nothing and closes at the end of the body what
\* is still open
RECURSIVE Repair(_, _, _)
Repair(rest, depth, out) ==
    IF rest = <<>> THEN out \o [i \in 1..depth |-> Markup("/div", "")]
    ELSE LET e == Head(rest)
         IN  IF e.el = "/div" /\ depth = 0 THEN Repair(Tail(rest), 0, out)
             ELSE Repair(Tail(rest),
                         CASE e.el = "div" -> depth + 1
                           [] e.el = "/div" -> depth - 1
                           [] OTHER -> depth,
                         Append(out, e))

Prettify(markup) == Repair(markup, 0, <<>>)

Column(report_df, F(_)) == [i \in DOMAIN report_df |-> F(report_df[i])]

\* report_overview: the page stats and the means over the pages
ReportOverview(report_df) ==
    [total_pages |-> ToString(Len(report_df)),
     total_words |-> ToString(SumSeq(Column(report_df, LAMBDA r : r.count))),
     total_lines |-> ToString(SumSeq(Column(report_df, LAMBDA r : r.textlines))),
     mean |-> Str4(SeriesMean(Column(report_df, LAMBDA r : r.mean))),
     std  |-> Str4(SeriesMean(Column(report_df, LAMBDA r : r.std))),
     q25  |-> Str4(SeriesMean(Column(report_df, LAMBDA r : r.q25))),
     q50  |-> Str4(SeriesMean(Column(report_df, LAMBDA r : r.q50))),
     q75  |-> Str4(SeriesMean(Column(report_df, LAMBDA r : r.q75)))]

\* =================================================================== state
VARIABLES
    remote,           \* what the servers hold, and the files they may fail on
    mets_dir,         \* <record_id>/mets/
    alto_dir,         \* <record_id>/alto/
    temp_dir,         \* <record_id>/temp/
    images_dir,       \* <record_id>/images/
    report_dir,       \* <record_id>/ (the report file)
    pc,               \* the stage the run is at
    err,              \* the exception that ended the run, "" for none
    feedback,         \* what download_if_not_exists printed last
    net_requests,     \* requests.get calls of this run
    fulltext_path, alto_i, pages_wc, pages_df_list, textlines,
    pages_df_list_report_df, page_index, textline_index,
    at_start,         \* the listings of temp/ and images/ when this run began
    report_written    \* whether this run has written the report

vars == <<remote, mets_dir, alto_dir, temp_dir, images_dir, report_dir, pc, err,
          feedback, net_requests, fulltext_path, alto_i, pages_wc,
          pages_df_list, textlines, pages_df_list_report_df, page_index,
          textline_index, at_start, report_written>>

disk == <<mets_dir, alto_dir, temp_dir, images_dir, report_dir>>

memory == <<fulltext_path, alto_i, pages_wc, pages_df_list, textlines,
            pages_df_list_report_df, page_index, textline_index>>

\* ------------------------------------------------------------------ inputs
\* the pages a document of the pipeline is made of: no line; one line
\* without a word; one word; two lines of different length; a token that is
\* no float
PipePages ==
    { <<>>,
      << <<>> >>,
      << <<Tok05>> >>,
      << <<Tok1Dot, Tok05>>, <<Tok05>> >>,
      << <<TokBad>> >> }

\* a page of one line of one word
Filler == << <<Tok05>> >>

\* a document that begins with the pages ps and has PeekIndex + 1 pages
Padded(ps) == ps \o [i \in 1..(PeekIndex + 1 - Len(ps)) |-> Filler]

\* the documents: up to MaxPages pages of any kind, on their own and as the
\* first pages of a document of PeekIndex + 1 pages
Documents ==
    SeqsUpTo(PipePages, MaxPages)
      \cup {Padded(ps) : ps \in SeqsUpTo(PipePages, MaxPages)}

\* the files of a document that a server may fail to deliver: the manifest
\* or one of the first pages
Unstable(ps) ==
    {MetsName} \cup {Basename(AltoUrl(k)) : k \in 1..MinOf2(Len(ps), MaxPages)}

\* what the servers hold and which request they may answer with an error
\* status: a manifest without the FULLTEXT group, every document served
\* without a fault, and a short and a long document with one file at risk
Remotes ==
    {[fulltext |-> FALSE, pages |-> <<>>, unstable |-> {}]}
      \cup {[fulltext |-> TRUE, pages |-> ps, unstable |-> {}] : ps \in Documents}
      \cup UNION {{[fulltext |-> TRUE, pages |-> ps, unstable |-> {u}] :
                     u \in Unstable(ps)} : ps \in {<<Filler>>, Padded(<<>>)}}

PageNames == {PageName(i) : i \in 0..(MaxPages - 1)}

LeftBehind(content) == {[n \in S |-> content] : S \in SUBSET PageNames}

HttpStatus == {"ok", "error"}

\* the status of the response to a request for a file
Answers(filename) == IF filename \in remote.unstable THEN HttpStatus ELSE {"ok"}

\* the pages of the tabulation on its own
TabTokens == {Tok1Dot, Tok05, TokNone}

TabPages == SeqsUpTo(SeqsUpTo(TabTokens, MaxWords), MaxLines)

\* ------------------------------------------------------------------- start
FreshMemory ==
    /\ fulltext_path = <<>>
    /\ alto_i = 0
    /\ pages_wc = <<>>
    /\ pages_df_list = <<>>
    /\ textlines = <<>>
    /\ pages_df_list_report_df = <<>>
    /\ page_index = 0
    /\ textline_index = 0

\* the first run over a record: nothing downloaded yet, images/ and temp/
\* as earlier work left them
Init ==
    /\ remote \in Remotes
    /\ mets_dir = EmptyDir
    /\ alto_dir = EmptyDir
    /\ temp_dir \in LeftBehind(StaleScratch)
    /\ images_dir \in LeftBehind(StaleImage)
    /\ report_dir = EmptyDir
    /\ pc = "mets"
    /\ err = ""
    /\ feedback = ""
    /\ net_requests = 0
    /\ FreshMemory
    /\ at_start = [temp |-> DOMAIN temp_dir, images |-> DOMAIN images_dir]
    /\ report_written = FALSE

\* an uncaught exception ends the script
Raise(exception) ==
    /\ pc' = "aborted"
    /\ err' = exception

\* the script is started again over the same record
StartRun ==
    /\ pc \in {"done", "aborted"}
    /\ pc' = "mets"
    /\ err' = ""
    /\ feedback' = ""
    /\ net_requests' = 0
    /\ fulltext_path' = <<>>
    /\ alto_i' = 0
    /\ pages_wc' = <<>>
    /\ pages_df_list' = <<>>
    /\ textlines' = <<>>
    /\ pages_df_list_report_df' = <<>>
    /\ page_index' = 0
    /\ textline_index' = 0
    /\ at_start' = [temp |-> DOMAIN temp_dir, images |-> DOMAIN images_dir]
    /\ report_written' = FALSE
    /\ UNCHANGED <<remote, disk>>

\* ------------------------------------------------------ step 1: download
DownloadMets ==
    /\ pc = "mets"
    /\ \E status \in Answers(MetsName) :
         LET got == download_if_not_exists(mets_dir, MetsName, MetsOf(remote), status)
         IN  /\ mets_dir' = got.dir
             /\ net_requests' = net_requests + got.requests
             /\ feedback' = got.feedback
             /\ IF got.raised THEN Raise("HTTPError")
                              ELSE pc' = "parse_mets" /\ err' = err
    /\ UNCHANGED <<remote, alto_dir, temp_dir, images_dir, report_dir, memory,
                   at_start, report_written>>

\* mets_soup.find('mets:fileGrp', {"USE": "FULLTEXT"}) is None without the
\* group, and None has no find_all
ExtractUrls ==
    /\ pc = "parse_mets"
    /\ LET mets == mets_dir[MetsName]
       IN  IF ~mets.fulltext
           THEN Raise("AttributeError") /\ UNCHANGED <<fulltext_path, alto_i>>
           ELSE /\ fulltext_path' = mets.urls
                /\ alto_i' = 1
                /\ pc' = IF mets.urls = <<>> THEN "extract" ELSE "alto"
                /\ err' = err
    /\ UNCHANGED <<remote, disk, feedback, net_requests, pages_wc, pages_df_list,
                   textlines, pages_df_list_report_df, page_index,
                   textline_index, at_start, report_written>>

\* one pass of the loop over fulltext_path
DownloadAlto ==
    /\ pc = "alto"
    /\ \E status \in Answers(Basename(fulltext_path[alto_i])) :
         LET alto_url == fulltext_path[alto_i]
             got == download_if_not_exists(alto_dir, Basename(alto_url),
                                           AltoOf(remote, alto_url), status)
         IN  /\ alto_dir' = got.dir
             /\ net_requests' = net_requests + got.requests
             /\ feedback' = got.feedback
             /\ IF got.raised
                THEN Raise("HTTPError") /\ alto_i' = alto_i
                ELSE /\ alto_i' = alto_i + 1
                     /\ pc' = IF alto_i = Len(fulltext_path) THEN "extract" ELSE "alto"
                     /\ err' = err
    /\ UNCHANGED <<remote, mets_dir, temp_dir, images_dir, report_dir,
                   fulltext_path, pages_wc, pages_df_list, textlines,
                   pages_df_list_report_df, page_index, textline_index,
                   at_start, report_written>>

\* ------------------------------------------- step 2: word confidences
\* pages_wc: for every ALTO file its text lines, for every line the WC of
\* its strings
ExtractWC ==
    /\ pc = "extract"
    /\ pages_wc' = [k \in DOMAIN fulltext_path |->
                      alto_dir[Basename(fulltext_path[k])].lines]
    /\ pc' = "tabulate"
    /\ UNCHANGED <<remote, disk, err, feedback, net_requests, fulltext_path,
                   alto_i, pages_df_list, textlines, pages_df_list_report_df,
                   page_index, textline_index, at_start, report_written>>

\* pages_df_list and its clean-up loop: the frames are built, then cleaned in
\* order; the first page that fails ends the loop, the pages before it are
\* cleaned, the others are as built
Tabulate ==
    /\ pc = "tabulate"
    /\ \E frames \in {[k \in DOMAIN pages_wc |-> DataFrame(pages_wc[k])]} :
       \E cleaned \in {[k \in DOMAIN frames |-> CleanUp(frames[k])]} :
       \E failed \in {{k \in DOMAIN cleaned : ~cleaned[k].ok}} :
          IF failed # {}
          THEN /\ Raise("ValueError")
               /\ pages_df_list' =
                    [k \in DOMAIN frames |->
                       IF \A f \in failed : k < f THEN cleaned[k].df ELSE frames[k]]
          ELSE /\ pages_df_list' = [k \in DOMAIN cleaned |-> cleaned[k].df]
               /\ pc' = "peek"
               /\ err' = err
    /\ UNCHANGED <<remote, disk, feedback, net_requests, fulltext_path, alto_i,
                   pages_wc, textlines, pages_df_list_report_df, page_index,
                   textline_index, at_start, report_written>>

\* the look at page 9, pages_df_list[8]: a list of fewer than nine entries
\* has no such entry
Peek ==
    /\ pc = "peek"
    /\ IF PeekIndex + 1 > Len(pages_df_list)
       THEN Raise("IndexError")
       ELSE pc' = "stats" /\ err' = err
    /\ UNCHANGED <<remote, disk, feedback, net_requests, memory, at_start,
                   report_written>>

\* ----------------------------------------------------- step 3: statistics
Statistics ==
    /\ pc = "stats"
    /\ textlines' = [k \in DOMAIN pages_df_list |-> pages_df_list[k].shape[1]]
    /\ pages_df_list_report_df' =
         [k \in DOMAIN pages_df_list |->
            [textlines |-> textlines'[k]] @@ PageReport(pages_df_list[k])]
    /\ pc' = "figure"
    /\ UNCHANGED <<remote, disk, err, feedback, net_requests, fulltext_path,
                   alto_i, pages_wc, pages_df_list, page_index, textline_index,
                   at_start, report_written>>

\* ------------------------------------------------------ step 4: visualize
\* the general statistic: one strip over the means of the pages.  A frame
\* built from no describe() result has no column 'mean'.
GeneralStatistic ==
    /\ pc = "figure"
    /\ IF pages_df_list_report_df = <<>>
       THEN Raise("KeyError") /\ UNCHANGED <<images_dir, page_index, textline_index>>
       ELSE /\ images_dir' =
                 WriteFile(images_dir, StatName,
                           SaveFig(RenderStrip(Column(pages_df_list_report_df,
                                                      LAMBDA r : r.mean))))
            /\ page_index' = 0
            /\ textline_index' = 0
            /\ pc' = "render"
            /\ err' = err
    /\ UNCHANGED <<remote, mets_dir, alto_dir, temp_dir, report_dir, feedback,
                   net_requests, fulltext_path, alto_i, pages_wc, pages_df_list,
                   textlines, pages_df_list_report_df, at_start,
                   report_written>>

\* one pass of the inner loop: the strip of one text line, stored as the
\* page's scratch file (first line) or appended below it (every later line)
RenderTextline ==
    /\ pc = "render"
    /\ textline_index < pages_df_list[page_index + 1].shape[1]
    /\ LET row  == pages_df_list[page_index + 1].values[textline_index + 1]
           fig  == SaveFig(RenderStrip(row))
           name == PageName(page_index)
       IN  IF textline_index = 0
           THEN temp_dir' = WriteFile(temp_dir, name, fig)
           ELSE LET saved == WriteFile(temp_dir, ConcatName, fig)
                    base  == saved[name]
                    add   == saved[ConcatName]
                IN  temp_dir' = WriteFile(saved, name, get_concat_v(base, add))
    /\ textline_index' = textline_index + 1
    /\ UNCHANGED <<remote, mets_dir, alto_dir, images_dir, report_dir, pc, err,
                   feedback, net_requests, fulltext_path, alto_i, pages_wc,
                   pages_df_list, textlines, pages_df_list_report_df, page_index,
                   at_start, report_written>>

\* after the inner loop: the scratch file moves to images/, or, when there
\* is none, the blank page representative is copied there
MovePage ==
    /\ pc = "render"
    /\ textline_index = pages_df_list[page_index + 1].shape[1]
    /\ LET name    == PageName(page_index)
           cleared == IF Exists(images_dir, name) THEN Remove(images_dir, name)
                                                  ELSE images_dir
       IN  IF ~Exists(temp_dir, name)
           THEN /\ images_dir' = WriteFile(cleared, name, blank_png)
                /\ temp_dir' = temp_dir
           ELSE /\ images_dir' = WriteFile(cleared, name, temp_dir[name])
                /\ temp_dir' = Remove(temp_dir, name)
    /\ page_index' = page_index + 1
    /\ textline_index' = 0
    /\ pc' = IF page_index + 1 = Len(pages_df_list) THEN "resize" ELSE "render"
    /\ UNCHANGED <<remote, mets_dir, alto_dir, report_dir, err, feedback,
                   net_requests, fulltext_path, alto_i, pages_wc, pages_df_list,
                   textlines, pages_df_list_report_df, at_start,
                   report_written>>

\* every file of images/ to 210 x 298, then the general statistic to 420 x 595
ResizeImages ==
    /\ pc = "resize"
    /\ LET pages == [n \in DOMAIN images_dir |-> Resize(images_dir[n], PageW, PageH)]
       IN  images_dir' = WriteFile(pages, StatName, Resize(pages[StatName], StatW, StatH))
    /\ pc' = "displot"
    /\ UNCHANGED <<remote, mets_dir, alto_dir, temp_dir, report_dir, err, feedback,
                   net_requests, memory, at_start, report_written>>

\* the distribution plot over all confidences of the document
Displot ==
    /\ pc = "displot"
    /\ LET confidence_df == FlattenSeq([k \in DOMAIN pages_df_list |->
                                          Stack(pages_df_list[k])])
           plot == [kind |-> "displot", w |-> DisplotW * SavefigDpi,
                    h |-> DisplotH * SavefigDpi, ncells |-> 0, xlim |-> 0,
                    array |-> confidence_df]
       IN  images_dir' = WriteFile(images_dir, DisplotName, SaveFig(plot))
    /\ pc' = "report"
    /\ UNCHANGED <<remote, mets_dir, alto_dir, temp_dir, report_dir, err, feedback,
                   net_requests, memory, at_start, report_written>>

\* -------------------------------------------------------- step 5: report
GenerateReport ==
    /\ pc = "report"
    /\ report_dir' =
         WriteFile(report_dir, ReportName,
                   [overview |-> ReportOverview(pages_df_list_report_df),
                    details  |-> Prettify(ReportDetails(Len(fulltext_path),
                                                        pages_df_list_report_df,
                                                        pages_df_list))])
    /\ report_written' = TRUE
    /\ pc' = "done"
    /\ UNCHANGED <<remote, mets_dir, alto_dir, temp_dir, images_dir, err, feedback,
                   net_requests, memory, at_start>>

\* ------------------------------------------------------------ specification
Next ==
    \/ StartRun
    \/ DownloadMets
    \/ ExtractUrls
    \/ DownloadAlto
    \/ ExtractWC
    \/ Tabulate
    \/ Peek
    \/ Statistics
    \/ GeneralStatistic
    \/ RenderTextline
    \/ MovePage
    \/ ResizeImages
    \/ Displot
    \/ GenerateReport

Spec == Init /\ [][Next]_vars

\* The tabulation and the statistics on their own, over every page of up to
\* MaxLines lines of up to MaxWords tokens: a run that has just extracted the
\* word confidences of a document that begins with such a page.
InitPage ==
    /\ remote \in {[fulltext |-> TRUE, pages |-> Padded(<<p>>), unstable |-> {}] :
                      p \in TabPages}
    /\ mets_dir = (MetsName :> MetsOf(remote))
    /\ alto_dir = [n \in {Basename(AltoUrl(k)) : k \in 1..Len(remote.pages)} |->
                     AltoOf(remote, [base |-> AltoUrl(1).base, name |-> n])]
    /\ temp_dir = EmptyDir
    /\ images_dir = EmptyDir
    /\ report_dir = EmptyDir
    /\ pc = "tabulate"
    /\ err = ""
    /\ feedback = "Retrieving:  -> Done!"
    /\ net_requests = Len(remote.pages) + 1
    /\ fulltext_path = mets_dir[MetsName].urls
    /\ alto_i = Len(remote.pages) + 1
    /\ pages_wc = remote.pages
    /\ pages_df_list = <<>>
    /\ textlines = <<>>
    /\ pages_df_list_report_df = <<>>
    /\ page_index = 0
    /\ textline_index = 0
    /\ at_start = [temp |-> {}, images |-> {}]
    /\ report_written = FALSE

NextPage ==
    \/ Tabulate
    \/ Peek
    \/ Statistics

SpecPage == InitPage /\ [][NextPage]_vars

\* ================================================================== claims
\* the stages after the resize pass
AfterResize == pc \in {"displot", "report", "done"}

\* the inner loop of the page at page_index has ended, the page's scratch
\* file has not been moved yet
InnerLoopDone ==
    /\ pc = "render"
    /\ textline_index = pages_df_list[page_index + 1].shape[1]

\* the strips of the lines of a page, first line first, stacked
Heatmap(df) ==
    [width  |-> FigW * SavefigDpi,
     height |-> SumSeq([i \in 1..df.shape[1] |-> FigH * SavefigDpi]),
     bands  |-> [i \in 1..df.shape[1] |-> RenderStrip(df.values[i])]]

\* what this run makes of page k (1-based) for images/
PageImage(k) ==
    Resize(IF pages_wc[k] = <<>> THEN blank_png ELSE Heatmap(pages_df_list[k]),
           PageW, PageH)

\* C1: after the resize pass of a run that began with an empty temp/, every
\* page i of the document has images/i.png, 210 x 298, and it is the blank
\* page representative exactly when the page has no line.
C1_PageImages ==
    (AfterResize /\ at_start.temp = {}) =>
        \A i \in 0..(Len(fulltext_path) - 1) :
            /\ Exists(images_dir, PageName(i))
            /\ images_dir[PageName(i)].width = PageW
            /\ images_dir[PageName(i)].height = PageH
            /\ (images_dir[PageName(i)].bands = blank_png.bands
                  <=> pages_wc[i + 1] = <<>>)

\* a finished run from an empty temp/ over a page with lines and a page
\* without
C1_Witness ==
    /\ pc = "done"
    /\ at_start.temp = {}
    /\ Len(pages_wc) = PeekIndex + 1
    /\ Len(pages_wc[1]) = 2
    /\ pages_wc[2] = <<>>
    /\ images_dir[PageName(1)] = blank_png

\* C5: when images/ held page images of the document as the run began, then
\* after the run every i.png of the document is the image this run made of
\* page i.
C5_StaleImagesReplaced ==
    (/\ AfterResize
     /\ \E i \in 0..(Len(fulltext_path) - 1) : PageName(i) \in at_start.images) =>
        \A i \in 0..(Len(fulltext_path) - 1) :
            /\ Exists(images_dir, PageName(i))
            /\ images_dir[PageName(i)] = PageImage(i + 1)

\* C10: when the inner loop of a page with L >= 1 lines has ended, the
\* page's scratch file is the L line strips from top to bottom in line order,
\* as wide as a strip and as high as the strips together, whatever temp/
\* held before.
C10_ScratchIsStackOfStrips ==
    LET df   == pages_df_list[page_index + 1]
        file == temp_dir[PageName(page_index)]
    IN  (InnerLoopDone /\ df.shape[1] >= 1) =>
            /\ Exists(temp_dir, PageName(page_index))
            /\ file.width = FigW * SavefigDpi
            /\ file.height = SumSeq([i \in DOMAIN file.bands |-> file.bands[i].h])
            /\ file.height = df.shape[1] * FigH * SavefigDpi
            /\ Len(file.bands) = df.shape[1]
            /\ \A i \in 1..df.shape[1] : file.bands[i] = RenderStrip(df.values[i])

\* the inner loop of a two-line page has ended over a scratch directory that
\* held a file of that page's name and a concat.png when the run began
C10_Witness ==
    /\ InnerLoopDone
    /\ pages_df_list[page_index + 1].shape[1] = 2
    /\ pages_df_list[page_index + 1].values[1] # pages_df_list[page_index + 1].values[2]
    /\ PageName(page_index) \in at_start.temp
    /\ Len(temp_dir[PageName(page_index)].bands) = 2

\* the tokens of a page, line after line
WordsOf(page) == FlattenSeq(page)

\* whether some token of the document is no float
HasBadToken(pages) ==
    \E k \in DOMAIN pages : \E t \in Range(WordsOf(pages[k])) : ~PyFloat(t).ok

\* C2: the tokens of a line parse to as many values, "None" to the missing
\* value without an error, "1." to 1.0 and every other float token to its
\* value.
C2_ParseTokens ==
    (pc # "tabulate") =>
        /\ err = ""
        /\ \A i \in DOMAIN pages_wc[1] :
             LET line == pages_wc[1][i]
                 row  == pages_df_list[1].values[i]
             IN  /\ Len(row) >= Len(line)
                 /\ \A j \in DOMAIN line :
                      row[j] = CASE line[j] = TokNone -> NaN
                                 [] line[j] = Tok1Dot -> 1000
                                 [] OTHER -> PyFloat(line[j]).v

\* C3: the document strip has exactly one unit cell for every page whose
\* mean is not missing, in page order, and is that many cells wide.
C3_DocumentStripCells ==
    (pc = "render") =>
        LET means == DropNa(Column(pages_df_list_report_df, LAMBDA r : r.mean))
            band  == images_dir[StatName].bands[1]
        IN  /\ band.ncells = Len(means)
            /\ band.xlim = Len(means)
            /\ \A k \in 1..Len(means) : CellValue(band, k) = means[k]

\* C4: the rows of a page's table are its lines, each right-padded with
\* missing values to the longest line, nothing cut and no error raised for
\* the lengths, and the page's count is the number of its values that are
\* not missing.
C4_PaddingAndCount ==
    LET lines  == pages_wc[1]
        widest == MaxOf({Len(lines[i]) : i \in DOMAIN lines})
        df     == pages_df_list[1]
    IN  /\ (pc = "aborted") => HasBadToken(pages_wc)
        /\ (pc \in {"stats", "figure"}) =>
              /\ df.shape = <<Len(lines), widest>>
              /\ \A i \in DOMAIN lines :
                   /\ Len(df.values[i]) = widest
                   /\ \A j \in 1..widest :
                        df.values[i][j] = IF j <= Len(lines[i])
                                          THEN PyFloat(lines[i][j]).v ELSE NaN
        /\ (pc = "figure") =>
              pages_df_list_report_df[1].count = Len(WordsOf(lines))

\* a page of two lines of different length has been described
C4_Witness ==
    /\ pc = "figure"
    /\ Len(pages_wc[1]) = 2
    /\ Len(pages_wc[1][1]) = 2
    /\ Len(pages_wc[1][2]) = 1
    /\ pages_df_list[1].values[2][2] = NaN
    /\ pages_df_list_report_df[1].count = 3

\* the statistics of the run are there
StatsKnown == pc \in {"figure", "render", "resize", "displot", "report", "done"}

\* a page without a value that is not missing (no line, or lines without a
\* word)
EmptyPage(k) ==
    \A t \in Range(WordsOf(pages_wc[k])) : CastCell(t).ok /\ CastCell(t).v = NaN

\* the fatal errors of a run: a failed download, a manifest without the
\* FULLTEXT group, a token that is no float
FatalCause ==
    \/ err = "HTTPError"
    \/ err = "AttributeError" /\ ~mets_dir[MetsName].fulltext
    \/ err = "ValueError" /\ HasBadToken(pages_wc)

\* C6: a page without a line or without a value is no error: a run over a
\* document with such pages ends for a fatal error only, a run that is done
\* has written the report, and every statistic of such a page is missing,
\* never zero.
C6_EmptyPagesAreNoError ==
    /\ (pc = "aborted" /\ \E k \in DOMAIN pages_wc : EmptyPage(k)) => FatalCause
    /\ (pc = "done") => report_written /\ Exists(report_dir, ReportName)
    /\ StatsKnown =>
         \A k \in DOMAIN pages_wc :
            EmptyPage(k) =>
               LET r == pages_df_list_report_df[k]
               IN  \A v \in {r.count, r.mean, r.std, r.min, r.q25, r.q50, r.q75, r.max} :
                      v = NaN /\ v # 0

\* what download_if_not_exists owes for the file `filename` of a directory
\* that goes from `before` to `after` in the step
DownloadContract(before, after, filename, payload) ==
    /\ net_requests' = net_requests + (IF Exists(before, filename) THEN 0 ELSE 1)
    /\ Exists(before, filename) =>
          after = before /\ err' = "" /\ pc' # "aborted"
    /\ ~Exists(before, filename) =>
          \/ after = WriteFile(before, filename, payload) /\ err' = "" /\ pc' # "aborted"
          \/ err' = "HTTPError" /\ pc' = "aborted"

\* C7: download_if_not_exists makes a request exactly when the file is not
\* there; called again after a download it makes none and leaves the file as
\* it is; a response that is no success raises, once, and ends the run.
C7_DownloadIfNotExists ==
    [][/\ (pc = "mets") =>
            DownloadContract(mets_dir, mets_dir', MetsName, MetsOf(remote))
       /\ (pc = "alto") =>
            DownloadContract(alto_dir, alto_dir', Basename(fulltext_path[alto_i]),
                             AltoOf(remote, fulltext_path[alto_i]))]_vars

\* a later run has found the manifest and the first page where an earlier
\* download put them
C7_Witness ==
    /\ pc = "alto"
    /\ alto_i = 2
    /\ net_requests = 0
    /\ feedback = "Using local copy: "
    /\ mets_dir[MetsName] = MetsOf(remote)
    /\ alto_dir[Basename(AltoUrl(1))] = AltoOf(remote, AltoUrl(1))

\* C8: a fatal error (a failed download, a manifest without the FULLTEXT
\* group, a token that is no float) ends the run where it occurs: the run is
\* aborted with that error, no stage follows and the run writes no report.
C8_FatalErrorEndsRun ==
    [][/\ (pc = "parse_mets" /\ ~mets_dir[MetsName].fulltext) => pc' = "aborted"
       /\ (pc = "tabulate" /\ HasBadToken(pages_wc)) => pc' = "aborted"
       /\ (pc \in {"mets", "alto"} /\ feedback' = "Retrieving: ") => pc' = "aborted"
       /\ (pc' = "aborted") =>
             /\ err' # ""
             /\ ~report_written'
             /\ report_dir' = report_dir
             /\ temp_dir' = temp_dir
             /\ images_dir' = images_dir
       /\ (pc = "aborted") => pc' = "mets" /\ disk' = disk]_vars

\* a run that met a token that is no float on its second page is over, the
\* report unwritten
C8_Witness ==
    /\ pc = "aborted"
    /\ err = "ValueError"
    /\ Len(pages_wc) = 2
    /\ pages_wc[2] = << <<TokBad>> >>
    /\ ~report_written
    /\ ~Exists(report_dir, ReportName)

\* C9: the strip of a line of N values, the missing ones counted, has
\* exactly N unit cells, the k-th for the k-th value, a missing value keeping
\* its cell uncoloured; of no value it is a blank strip of the same height.
C9_LineStripCells ==
    InnerLoopDone =>
        \A i \in 1..pages_df_list[page_index + 1].shape[1] :
            LET row  == pages_df_list[page_index + 1].values[i]
                band == temp_dir[PageName(page_index)].bands[i]
            IN  /\ band.h = FigH * SavefigDpi
                /\ band.ncells = Len(row)
                /\ band.xlim = Len(row)
                /\ \A k \in 1..Len(row) : CellValue(band, k) = row[k]

\* the markup of the detail section as the loop of this run puts it together
report_details ==
    ReportDetails(Len(fulltext_path), pages_df_list_report_df, pages_df_list)

\* the elements opened and not yet closed after the first i pieces of markup
OpenAfter(markup, i) ==
    Cardinality({j \in 1..i : markup[j].el = "div"})
      - Cardinality({j \in 1..i : markup[j].el = "/div"})

\* no closing tag without an element to close, nothing open at the end
Balanced(markup) ==
    /\ \A i \in 1..Len(markup) : OpenAfter(markup, i) >= 0
    /\ OpenAfter(markup, Len(markup)) = 0

\* the cards that follow the opening tag at position i
CardsFrom(markup, i) ==
    Cardinality({j \in (i + 1)..Len(markup) :
                   \A l \in (i + 1)..j : markup[l].el = "card"})

\* the opening tags of the rows that hold a card
RowsWithCards(markup) ==
    {i \in 1..Len(markup) :
        /\ markup[i].el = "div"
        /\ markup[i].cls = "row gx-2 m-1"
        /\ CardsFrom(markup, i) > 0}

\* the cards are those of the pages 0..P-1 in page order, card k with image
\* k.png, every card in a row, every row with a card holds CardsPerRow of
\* them but for the last one
CardsInRows(markup) ==
    LET cards == SelectSeq(markup, LAMBDA e : e.el = "card")
        rows  == RowsWithCards(markup)
    IN  /\ Len(cards) = Len(fulltext_path)
        /\ \A k \in 0..(Len(cards) - 1) : cards[k + 1].img = "images/" \o PageName(k)
        /\ \A j \in 1..Len(markup) :
              markup[j].el = "card" =>
                 \E i \in rows : i < j /\ j <= i + CardsFrom(markup, i)
        /\ \A i \in rows :
              \/ CardsFrom(markup, i) = CardsPerRow
              \/ /\ CardsFrom(markup, i) < CardsPerRow
                 /\ \A o \in rows : o <= i

\* C11: the detail section holds the cards of the pages in page order, card
\* k with image k.png, in rows of exactly 6 cards but for the last row, and
\* its markup is balanced: every row and the container are closed when the
\* section ends.
C11_DetailsGridBalanced ==
    (pc = "done") => CardsInRows(report_details) /\ Balanced(report_details)

\* C12: whatever temp/ held when the run began, after the run the image of
\* page i is the blank page representative exactly when page i has no line;
\* a file i.png that was in temp/ before is never the image of such a page.
C12_BlankIffNoLines ==
    AfterResize =>
        \A i \in 0..(Len(fulltext_path) - 1) :
            /\ Exists(images_dir, PageName(i))
            /\ (images_dir[PageName(i)].bands = blank_png.bands
                  <=> pages_wc[i + 1] = <<>>)
            /\ (pages_wc[i + 1] = <<>> /\ PageName(i) \in at_start.temp) =>
                  images_dir[PageName(i)].bands # <<StaleBand>>

\* the file that the call of download_if_not_exists at hand is about, if the
\* run is at one
AtDownload(dir, filename) ==
    \/ pc = "mets" /\ dir = mets_dir /\ filename = MetsName
    \/ /\ pc = "alto"
       /\ dir = alto_dir
       /\ filename = Basename(fulltext_path[alto_i])

\* C13: in every run, the runs after one that a failed download ended
\* included, a file that download_if_not_exists is about to take for a local
\* copy holds all that a successful download wrote; no failed download has
\* left a file behind.
C13_LocalCopiesAreComplete ==
    /\ \A dir \in {mets_dir, alto_dir} : \A filename \in DOMAIN dir :
          AtDownload(dir, filename) => dir[filename].complete
    /\ (pc = "mets") => mets_dir \in {EmptyDir, MetsName :> MetsOf(remote)}
    /\ (pc = "aborted" /\ err = "HTTPError") =>
          \A dir \in {mets_dir, alto_dir} : \A filename \in DOMAIN dir :
             dir[filename] # EmptyFile

====
